---- MODULE Spec2Model ----
(***************************************************************************)
(* swollencandle: trades -> candles, candle upscaling, candle merge, and   *)
(* the cosevalues row codec that persists them.                            *)
(*                                                                         *)
(* Values.  A double is held as an exact reduced fraction <<n, d>>         *)
(* (rounding is not modelled); d = 0 stands for the non-finite results of  *)
(* a division by 0.0.  In the aggregation functions the integer fields     *)
(* (time, period, count) are naturals drawn far below 2^64, so the u64     *)
(* sums candle.time + period and count + count cannot wrap there.          *)
(***************************************************************************)
EXTENDS Integers, Sequences, FiniteSets, TLC

VARIABLES pc, up, trades, source, x, y, result, result0, z, z0, ec, ret,
          text, fields, parsed, written, candles

vars == <<pc, up, trades, source, x, y, result, result0, z, z0, ec, ret,
          text, fields, parsed, written, candles>>

(***************************************************************************)
(* Bounds of the model                                                     *)
(***************************************************************************)
MaxTrades == 3
MaxSource == 4
MaxMerge == 2
MaxRows == 2
MaxText == 4

(***************************************************************************)
(* Small helpers                                                           *)
(***************************************************************************)
Max2(a, b) == IF a >= b THEN a ELSE b
Min2(a, b) == IF a <= b THEN a ELSE b

RECURSIVE Gcd(_, _)
Gcd(a, b) == IF b = 0 THEN a ELSE Gcd(b, a % b)

SeqsUpTo(S, n) == UNION {[1..k -> S] : k \in 0..n}

(***************************************************************************)
(* double: exact fractions                                                 *)
(***************************************************************************)
\* n / d in lowest terms; x / 0.0 is inf (<<1, 0>>) and 0.0 / 0.0 is NaN (<<0, 0>>)
Ratio(n, d) ==
    IF d = 0 THEN (IF n = 0 THEN <<0, 0>> ELSE <<1, 0>>)
    ELSE LET g == Gcd(n, d) IN <<n \div g, d \div g>>

Whole(n) == <<n, 1>>

\* r * v and r + q for fractions r, q and a whole v
Times(r, v) == Ratio(r[1] * v, r[2])
Plus(r, q) == Ratio(r[1] * q[2] + q[1] * r[2], r[2] * q[2])
\* r / v
Over(r, v) == IF r[2] = 0 THEN r ELSE Ratio(r[1], r[2] * v)

(***************************************************************************)
(* swollencandle.hpp: upscale_period, seconds_in, error                    *)
(***************************************************************************)
upscale_period == {"minute", "hour", "day", "month", "year"}

\* std::optional<upscale_period>: <<>> is std::nullopt, <<u>> holds u
nullopt == <<>>

\* a parse that looks at the size of the text and at its first character only
parse_upscale_period_by_size(txt) ==
    CASE Len(txt) = 3 -> <<"day">>
      [] Len(txt) = 4 -> IF txt[1] = "h" THEN <<"hour">> ELSE <<"year">>
      [] Len(txt) = 5 -> <<"month">>
      [] Len(txt) = 6 -> <<"minute">>
      [] OTHER -> nullopt

\* parse_upscale_period(text), a text being a sequence of characters
parse_upscale_period(txt) ==
    CASE Len(txt) = 3 ->
            IF txt = <<"d", "a", "y">> THEN <<"day">> ELSE nullopt
      [] Len(txt) = 4 ->
            IF txt = <<"h", "o", "u", "r">> THEN <<"hour">>
            ELSE IF txt = <<"y", "e", "a", "r">> THEN <<"year">>
            ELSE nullopt
      [] Len(txt) = 5 ->
            IF txt = <<"m", "o", "n", "t", "h">> THEN <<"month">> ELSE nullopt
      [] Len(txt) = 6 ->
            IF txt = <<"m", "i", "n", "u", "t", "e">> THEN <<"minute">> ELSE nullopt
      [] OTHER -> nullopt

seconds_in(u) ==
    CASE u = "minute" -> 60
      [] u = "hour"   -> 3600
      [] u = "day"    -> 86400
      [] u = "month"  -> 2592000
      [] u = "year"   -> 31104000
      [] OTHER        -> 0

error == {"ok", "non_constant_period", "invalid_upscale_period",
          "merging_periods_mismatch", "duplicated_candle", "mismatched_candles",
          "invalid_candle_fields", "invalid_trade_fields"}

\* struct candle
Candle(time, period, count, volume, vwap, open, high, low, close) ==
    [time |-> time, period |-> period, count |-> count, volume |-> volume,
     vwap_price |-> vwap, open_price |-> open, high_price |-> high,
     low_price |-> low, close_price |-> close]

(***************************************************************************)
(* upscale(std::vector<trade> const&, ...): trades to candles              *)
(***************************************************************************)
\* the accumulator: the candle being built and its turnover
\* (vwap_price is not set before the candle is pushed)
OpenCandle(each_trade, period_in_seconds) ==
    [candle |-> [time        |-> (each_trade.time \div period_in_seconds) * period_in_seconds,
                 period      |-> period_in_seconds,
                 count       |-> 1,
                 volume      |-> each_trade.amount,
                 open_price  |-> each_trade.price,
                 high_price  |-> each_trade.price,
                 low_price   |-> each_trade.price,
                 close_price |-> each_trade.price],
     turnover |-> each_trade.amount * each_trade.price]

ExtendCandleNoLow(acc, each_trade) ==
    [candle |-> [acc.candle EXCEPT
                    !.count = @ + 1,
                    !.volume = @ + each_trade.amount,
                    !.high_price = IF each_trade.price > @ THEN each_trade.price ELSE @,
                    !.close_price = each_trade.price],
     turnover |-> acc.turnover + each_trade.price * each_trade.amount]

ExtendCandle(acc, each_trade) ==
    LET c == acc.candle IN
    [candle |-> [c EXCEPT
                    !.count = @ + 1,
                    !.volume = @ + each_trade.amount,
                    !.high_price = IF each_trade.price > c.high_price
                                   THEN each_trade.price ELSE @,
                    !.low_price = IF each_trade.price > c.high_price THEN @
                                  ELSE IF each_trade.price < c.low_price
                                       THEN each_trade.price ELSE @,
                    !.close_price = each_trade.price],
     turnover |-> acc.turnover + each_trade.price * each_trade.amount]

\* candle.vwap_price = turnover / candle.volume; result.push_back(candle)
Flush(acc) ==
    Candle(acc.candle.time, acc.candle.period, acc.candle.count, acc.candle.volume,
           Ratio(acc.turnover, acc.candle.volume), acc.candle.open_price,
           acc.candle.high_price, acc.candle.low_price, acc.candle.close_price)

ClosesCandleLate(each_trade, candle, period_in_seconds) ==
    each_trade.time > candle.time + period_in_seconds

ClosesCandle(each_trade, candle, period_in_seconds) ==
    each_trade.time >= candle.time + period_in_seconds

\* the loop for(i = 1; i != trades.size(); ++i), then the final flush
RECURSIVE FoldTrades(_, _, _, _, _)
FoldTrades(ts, i, acc, res, period_in_seconds) ==
    IF i > Len(ts) THEN Append(res, Flush(acc))
    ELSE IF ClosesCandle(ts[i], acc.candle, period_in_seconds)
         THEN FoldTrades(ts, i + 1, OpenCandle(ts[i], period_in_seconds),
                         Append(res, Flush(acc)), period_in_seconds)
         ELSE FoldTrades(ts, i + 1, ExtendCandle(acc, ts[i]), res, period_in_seconds)

\* the vector result after upscale(trades, result, up, ec)
upscale_trades(ts, res, u) ==
    IF ts = <<>> THEN res
    ELSE FoldTrades(ts, 2, OpenCandle(ts[1], seconds_in(u)), res, seconds_in(u))

(***************************************************************************)
(* detail::check_integrity and upscale(std::vector<candle> const&, ...)    *)
(***************************************************************************)
check_integrity_first_two(cs) ==
    cs = <<>> \/ Len(cs) = 1 \/ cs[2].period = cs[1].period

\* TRUE when the loop over the candles after the first finds no period unlike the first's
check_integrity(cs) ==
    cs = <<>> \/ \A i \in 2..Len(cs) : cs[i].period = cs[1].period

\* the inner loop for(k = j + 1; k != j + candles_to_fit; ++k) over the running
\* count, volume, turnover, high_price, low_price (j and k count from 1 here)
RECURSIVE FoldRun(_, _, _, _)
FoldRun(src, k, last, run) ==
    IF k > last THEN run
    ELSE FoldRun(src, k + 1, last,
                 [count      |-> run.count + src[k].count,
                  volume     |-> run.volume + src[k].volume,
                  turnover   |-> Plus(run.turnover, Times(src[k].vwap_price, src[k].volume)),
                  high_price |-> IF src[k].high_price > run.high_price
                                 THEN src[k].high_price ELSE run.high_price,
                  low_price  |-> IF src[k].low_price < run.low_price
                                 THEN src[k].low_price ELSE run.low_price])

UpscaledCloseOfFirst(src, j, candles_to_fit, period_in_seconds) ==
    LET run == FoldRun(src, j + 1, j + candles_to_fit - 1,
                       [count      |-> src[j].count,
                        volume     |-> src[j].volume,
                        turnover   |-> Times(src[j].vwap_price, src[j].volume),
                        high_price |-> src[j].high_price,
                        low_price  |-> src[j].low_price])
    IN Candle((src[j].time \div period_in_seconds) * period_in_seconds,
              period_in_seconds, run.count, run.volume,
              Over(run.turnover, run.volume), src[j].open_price,
              run.high_price, run.low_price, src[j].close_price)

\* result[i] for the run that starts at source[j]
Upscaled(src, j, candles_to_fit, period_in_seconds) ==
    LET run == FoldRun(src, j + 1, j + candles_to_fit - 1,
                       [count      |-> src[j].count,
                        volume     |-> src[j].volume,
                        turnover   |-> Times(src[j].vwap_price, src[j].volume),
                        high_price |-> src[j].high_price,
                        low_price  |-> src[j].low_price])
    IN Candle((src[j].time \div period_in_seconds) * period_in_seconds,
              period_in_seconds, run.count, run.volume,
              Over(run.turnover, run.volume), src[j].open_price,
              run.high_price, run.low_price,
              src[j + candles_to_fit - 1].close_price)

\* result.resize(source.size() / candles_to_fit) and the outer loop
UpscaledRuns(src, candles_to_fit, period_in_seconds) ==
    [i \in 1..(Len(src) \div candles_to_fit) |->
        Upscaled(src, (i - 1) * candles_to_fit + 1, candles_to_fit, period_in_seconds)]

Outcome(end, r, e, res) == [pc |-> end, ret |-> r, ec |-> e, result |-> res]

\* period_in_seconds % period with period = 0 is undefined: the division traps and
\* the process is killed (x86), or it yields period_in_seconds, which is not 0, and
\* the call returns invalid_upscale_period (a target whose division does not trap)
ModuloByZero(res, e) ==
    {Outcome("aborted", FALSE, e, res),
     Outcome("done", FALSE, "invalid_upscale_period", res)}

\* the outcomes of upscale(source, result, up, ec)
upscale_candles(src, res, u, e) ==
    LET period == src[1].period
        period_in_seconds == seconds_in(u)
    IN IF src = <<>> THEN {Outcome("done", TRUE, e, res)}
       ELSE IF ~check_integrity(src)
            THEN {Outcome("done", FALSE, "non_constant_period", res)}
       ELSE IF period = 0 THEN ModuloByZero(res, e)
       ELSE IF period_in_seconds % period # 0
            THEN {Outcome("done", FALSE, "invalid_upscale_period", res)}
       ELSE IF period_in_seconds = period
            THEN {Outcome("done", TRUE, e, src)}
       ELSE {Outcome("done", TRUE, e,
                     UpscaledRuns(src, period_in_seconds \div period, period_in_seconds))}

(***************************************************************************)
(* merge(x, y, z, ec)                                                      *)
(***************************************************************************)
\* indexed.try_emplace(each.time, &each): the map with the key added when it is new
try_emplace(indexed, each) ==
    IF each.time \in DOMAIN indexed THEN indexed
    ELSE [t \in DOMAIN indexed \cup {each.time} |->
            IF t = each.time THEN each ELSE indexed[t]]

EmptyIndex == [t \in {} |-> 0]

\* the loop over x: FALSE stands for the return with duplicated_candle
RECURSIVE IndexX(_, _, _)
IndexX(xs, i, indexed) ==
    IF i > Len(xs) THEN [placed |-> TRUE, indexed |-> indexed]
    ELSE IF xs[i].time \in DOMAIN indexed THEN [placed |-> FALSE, indexed |-> indexed]
    ELSE IndexX(xs, i + 1, try_emplace(indexed, xs[i]))

DiffersInTime(existing, each) == existing.time # each.time

\* *placed.first->second != each, the defaulted comparison of all nine fields
Differs(existing, each) == existing # each

\* the loop over y: FALSE stands for the return with mismatched_candles
RECURSIVE IndexY(_, _, _)
IndexY(ys, i, indexed) ==
    IF i > Len(ys) THEN [placed |-> TRUE, indexed |-> indexed]
    ELSE IF ys[i].time \in DOMAIN indexed /\ Differs(indexed[ys[i].time], ys[i])
         THEN [placed |-> FALSE, indexed |-> indexed]
    ELSE IndexY(ys, i + 1, try_emplace(indexed, ys[i]))

RECURSIVE SortedDescending(_)
SortedDescending(indexed) ==
    IF DOMAIN indexed = {} THEN <<>>
    ELSE LET last == CHOOSE t \in DOMAIN indexed : \A u \in DOMAIN indexed : u <= t
         IN <<indexed[last]>> \o
            SortedDescending([t \in DOMAIN indexed \ {last} |-> indexed[t]])

\* sorted filled from the map and std::sort by first, then z[i] = *sorted[i].second:
\* the keys are distinct, so the order does not depend on the map's iteration order
RECURSIVE Sorted(_)
Sorted(indexed) ==
    IF DOMAIN indexed = {} THEN <<>>
    ELSE LET first == CHOOSE t \in DOMAIN indexed : \A u \in DOMAIN indexed : t <= u
         IN <<indexed[first]>> \o Sorted([t \in DOMAIN indexed \ {first} |-> indexed[t]])

MergeOutcome(r, e, zs) == [ret |-> r, ec |-> e, z |-> zs]

\* the outcome of merge(x, y, z, ec)
merge(xs, ys, zs, e) ==
    IF xs # <<>> /\ ys # <<>> /\ xs[1].period # ys[1].period
    THEN MergeOutcome(FALSE, "merging_periods_mismatch", zs)
    ELSE LET ix == IndexX(xs, 1, EmptyIndex)
             iy == IndexY(ys, 1, ix.indexed)
         IN IF ~ix.placed THEN MergeOutcome(FALSE, "duplicated_candle", zs)
            ELSE IF ~iy.placed THEN MergeOutcome(FALSE, "mismatched_candles", zs)
            ELSE MergeOutcome(TRUE, e, Sorted(iy.indexed))

(***************************************************************************)
(* cosevalues.hpp: the text buffer                                         *)
(*                                                                         *)
(* A text is a sequence of one-character strings; the position after the   *)
(* last character holds the terminator '\0' of std::string, written NUL.   *)
(* A cursor is a position 1 .. Len(text) + 1.                              *)
(*                                                                         *)
(* The codec reads and writes integers of the full u32 and u64 range, so   *)
(* here an unsigned integer is held as three limbs <<h, m, l>> of base     *)
(* 10^7, standing for h * 10^14 + m * 10^7 + l.                            *)
(***************************************************************************)
NUL == "NUL"
TAB == "\t"
CR == "\r"
LF == "\n"
QUOTE == "\""
COMMA == ","

At(txt, c) == IF c \in 1..Len(txt) THEN txt[c] ELSE NUL

DigitChars == <<"0", "1", "2", "3", "4", "5", "6", "7", "8", "9">>
IsDigit(ch) == \E d \in 1..10 : DigitChars[d] = ch
DigitValue(ch) == (CHOOSE d \in 1..10 : DigitChars[d] = ch) - 1
DigitChar(d) == DigitChars[d + 1]

LimbBase == 10 ^ 7
Limbs(n) == <<0, 0, n>>
\* std::numeric_limits<std::uint32_t>::max() = 4294967295 and
\* std::numeric_limits<std::uint64_t>::max() = 18446744073709551615
UInt32Max == <<0, 429, 4967295>>
UInt64Max == <<184467, 4407370, 9551615>>

Exceeds(v, max) ==
    \/ v[1] > max[1]
    \/ v[1] = max[1] /\ v[2] > max[2]
    \/ v[1] = max[1] /\ v[2] = max[2] /\ v[3] > max[3]

\* v * 10 + d
PushDigit(v, d) ==
    LET l == v[3] * 10 + d
        m == v[2] * 10 + (l \div LimbBase)
        h == v[1] * 10 + (m \div LimbBase)
    IN <<h, m % LimbBase, l % LimbBase>>

(***************************************************************************)
(* class row: the scanners                                                 *)
(***************************************************************************)
RECURSIVE skip_line(_, _)
skip_line(txt, cursor) ==
    CASE At(txt, cursor) = LF  -> cursor + 1
      [] At(txt, cursor) = NUL -> cursor
      [] OTHER                 -> skip_line(txt, cursor + 1)

RECURSIVE skip_whitespaces(_, _)
skip_whitespaces(txt, cursor) ==
    IF At(txt, cursor) \in {" ", TAB, CR}
    THEN skip_whitespaces(txt, cursor + 1)
    ELSE cursor

\* the loop of scan_quoted, after its ++cursor_: stops on the closing quote
RECURSIVE ScanQuotedLoop(_, _, _)
ScanQuotedLoop(txt, cursor, has_inner_quotes) ==
    CASE At(txt, cursor) \in {LF, NUL} ->
            [ok |-> FALSE, cursor |-> cursor, has_inner_quotes |-> has_inner_quotes]
      [] At(txt, cursor) = QUOTE ->
            IF At(txt, cursor + 1) = QUOTE
            THEN ScanQuotedLoop(txt, cursor + 2, TRUE)
            ELSE [ok |-> TRUE, cursor |-> cursor, has_inner_quotes |-> has_inner_quotes]
      [] OTHER -> ScanQuotedLoop(txt, cursor + 1, has_inner_quotes)

scan_quoted(txt, cursor) == ScanQuotedLoop(txt, cursor + 1, FALSE)

RECURSIVE scan_token(_, _)
scan_token(txt, cursor) ==
    IF At(txt, cursor) \in {TAB, CR, LF, NUL, COMMA}
    THEN cursor
    ELSE scan_token(txt, cursor + 1)

(***************************************************************************)
(* std::from_chars as try_parse uses it                                    *)
(***************************************************************************)
\* the digits of [i, end): the value while it fits, and whether it stopped fitting
RECURSIVE ScanDigits(_, _, _, _, _, _)
ScanDigits(txt, i, end, v, max, over) ==
    IF i >= end \/ ~IsDigit(At(txt, i)) THEN [ptr |-> i, value |-> v, over |-> over]
    ELSE LET w == PushDigit(v, DigitValue(At(txt, i)))
         IN IF over \/ Exceeds(w, max)
            THEN ScanDigits(txt, i + 1, end, v, max, TRUE)
            ELSE ScanDigits(txt, i + 1, end, w, max, FALSE)

\* what from_chars returns for the digits d scanned from begin
UnsignedResult(begin, d) ==
    IF d.ptr = begin THEN [ec |-> "invalid_argument", ptr |-> begin, value |-> Limbs(0)]
    ELSE IF d.over THEN [ec |-> "result_out_of_range", ptr |-> d.ptr, value |-> Limbs(0)]
    ELSE [ec |-> "ok", ptr |-> d.ptr, value |-> d.value]

\* std::from_chars(begin, end, unsigned&): the longest prefix of digits
from_chars_unsigned(txt, begin, end, max) ==
    UnsignedResult(begin, ScanDigits(txt, begin, end, Limbs(0), max, FALSE))

\* the digits of [i, end) as a natural number, for the two parts of a double
RECURSIVE ScanPart(_, _, _, _)
ScanPart(txt, i, end, n) ==
    IF i >= end \/ ~IsDigit(At(txt, i)) THEN [ptr |-> i, value |-> n]
    ELSE ScanPart(txt, i + 1, end, n * 10 + DigitValue(At(txt, i)))

\* std::from_chars(begin, end, double&): of its grammar the plain decimal forms
\* digits [ . digits ], at least one digit; the longest prefix that matches
from_chars_double(txt, begin, end) ==
    LET whole == ScanPart(txt, begin, end, 0)
        point == whole.ptr < end /\ At(txt, whole.ptr) = "."
        frac  == IF point THEN ScanPart(txt, whole.ptr + 1, end, 0)
                 ELSE [ptr |-> whole.ptr, value |-> 0]
        places == IF point THEN frac.ptr - (whole.ptr + 1) ELSE 0
    IN IF (whole.ptr - begin) + places = 0
       THEN [ec |-> "invalid_argument", ptr |-> begin, value |-> Whole(0)]
       ELSE [ec |-> "ok", ptr |-> frac.ptr,
             value |-> Ratio(whole.value * (10 ^ places) + frac.value, 10 ^ places)]

\* return converted.ec == std::errc{}: where the conversion stopped is not looked at
Converted(converted, end) == [ok |-> converted.ec = "ok", value |-> converted.value]

\* try_parse(begin, end, arg) for the kinds of field
try_parse(txt, begin, end, kind) ==
    CASE kind = "uint32" ->
            Converted(from_chars_unsigned(txt, begin, end, UInt32Max), end)
      [] kind = "uint64" ->
            Converted(from_chars_unsigned(txt, begin, end, UInt64Max), end)
      [] kind = "double" ->
            Converted(from_chars_double(txt, begin, end), end)
      [] kind = "string" ->
            [ok |-> TRUE, value |-> SubSeq(txt, begin, end - 1)]

\* try_parse_quoted: every quote of the span skips to the character after it
RECURSIVE UnescapeFrom(_, _, _, _)
UnescapeFrom(txt, p, end, arg) ==
    IF p >= end THEN arg
    ELSE IF At(txt, p) = QUOTE
         THEN UnescapeFrom(txt, p + 2, end, Append(arg, At(txt, p + 1)))
         ELSE UnescapeFrom(txt, p + 1, end, Append(arg, At(txt, p)))

\* a conversion that keeps the doubled quotes as they stand
try_parse_verbatim(txt, begin, end) == [ok |-> TRUE, value |-> SubSeq(txt, begin, end - 1)]

try_parse_quoted(txt, begin, end) == [ok |-> TRUE, value |-> UnescapeFrom(txt, begin, end, <<>>)]

(***************************************************************************)
(* row::parse_arg, row::parse_args, row::parse                             *)
(***************************************************************************)
NoArg(cursor) == [ok |-> FALSE, cursor |-> cursor, value |-> <<>>, mark |-> cursor, end |-> cursor]

\* the end of parse_arg, given the conversion of the span [mark, end)
ArgOf(converted, mark, end, cursor) ==
    IF ~converted.ok THEN NoArg(end)
    ELSE [ok |-> TRUE, cursor |-> cursor, value |-> converted.value,
          mark |-> mark, end |-> end]

\* the quoted branch, q being what scan_quoted found
QuotedArg(txt, kind, mark, q) ==
    IF ~q.ok THEN NoArg(q.cursor)
    ELSE ArgOf(IF kind = "string" /\ q.has_inner_quotes
               THEN try_parse_quoted(txt, mark, q.cursor)
               ELSE try_parse(txt, mark, q.cursor, kind),
               mark, q.cursor, q.cursor + 1)

\* the bare branch, end being where scan_token stopped
BareArg(txt, kind, mark, end) ==
    IF mark = end THEN NoArg(end)
    ELSE ArgOf(try_parse(txt, mark, end, kind), mark, end, end)

\* parse_arg: [mark, end) is the span handed to try_parse
parse_arg(txt, cursor, kind) ==
    IF At(txt, cursor) = QUOTE
    THEN QuotedArg(txt, kind, cursor + 1, scan_quoted(txt, cursor))
    ELSE BareArg(txt, kind, cursor, scan_token(txt, cursor))

NoRow(cursor) == [ok |-> FALSE, cursor |-> cursor, values |-> <<>>, spans |-> <<>>]

\* an end of row that lets any character follow the last field
EndOfRowAnywhere(txt, after, values, spans) ==
    [ok |-> TRUE, cursor |-> after, values |-> values, spans |-> spans]

\* parse_args<1> after its field: the row must end here
EndOfRow(txt, after, values, spans) ==
    IF At(txt, after) \in {LF, NUL}
    THEN [ok |-> TRUE, cursor |-> after, values |-> values, spans |-> spans]
    ELSE NoRow(after)

\* parse_args<I>: kinds[i] is the i-th declared field; values and spans are those of
\* the fields before it
RECURSIVE parse_args(_, _, _, _, _, _)

\* parse_args<I>, I > 1, after its field: one comma, then the fields that remain
NextArg(txt, after, kinds, i, values, spans) ==
    IF At(txt, after) # COMMA THEN NoRow(after)
    ELSE parse_args(txt, skip_whitespaces(txt, after + 1), kinds, i + 1, values, spans)

AfterArg(txt, a, kinds, i, values, spans) ==
    IF ~a.ok THEN NoRow(a.cursor)
    ELSE IF i = Len(kinds)
         THEN EndOfRow(txt, skip_whitespaces(txt, a.cursor),
                       Append(values, a.value), Append(spans, <<a.mark, a.end>>))
         ELSE NextArg(txt, skip_whitespaces(txt, a.cursor), kinds, i,
                      Append(values, a.value), Append(spans, <<a.mark, a.end>>))

parse_args(txt, cursor, kinds, i, values, spans) ==
    AfterArg(txt, parse_arg(txt, cursor, kinds[i]), kinds, i, values, spans)

\* row.parse(arg, args...) on the row at cursor
parse(txt, cursor, kinds) == parse_args(txt, cursor, kinds, 1, <<>>, <<>>)

(***************************************************************************)
(* class reader                                                            *)
(***************************************************************************)
\* const_iterator{cursor}: the row at the first position that is not a white space
const_iterator(txt, cursor) == skip_whitespaces(txt, cursor)

\* operator++
next_row(txt, cursor) == skip_whitespaces(txt, skip_line(txt, cursor))

first_row(txt) == const_iterator(txt, 1)

first_to_last_rows(txt) ==
    [begin |-> const_iterator(txt, 1), end |-> const_iterator(txt, Len(txt) + 1)]

second_to_last_rows(txt) ==
    LET end == const_iterator(txt, Len(txt) + 1)
        second_line == const_iterator(txt, 1)
    IN IF second_line = end THEN [begin |-> end, end |-> end]
       ELSE [begin |-> next_row(txt, second_line), end |-> end]

(***************************************************************************)
(* class writer                                                            *)
(***************************************************************************)
uint32_digits == 10
uint64_digits == 18
double_digits == 32

RECURSIVE DecimalOf(_)
DecimalOf(n) ==
    IF n < 10 THEN <<DigitChar(n)>> ELSE Append(DecimalOf(n \div 10), DigitChar(n % 10))

\* the seven digits of a limb below the first
Padded(n) == [i \in 1..7 |-> DigitChar((n \div (10 ^ (7 - i))) % 10)]

\* the minimal decimal form std::to_chars writes for an unsigned integer
DecimalOfUnsigned(v) ==
    IF v[1] > 0 THEN DecimalOf(v[1]) \o Padded(v[2]) \o Padded(v[3])
    ELSE IF v[2] > 0 THEN DecimalOf(v[2]) \o Padded(v[3])
    ELSE DecimalOf(v[3])

\* what to_chars may leave in [p, p + size) when the value does not fit: nothing
\* (the bytes stay as allocate's resize zeroed them) or as many digits as fit
Unspecified == {"untouched", "truncated"}

\* the bytes format_arg adds for an unsigned integer: allocate(size),
\* to_chars(p, p + size, arg), free(converted.ptr); when the value does not fit,
\* to_chars returns ptr = p + size and all size bytes stay in the buffer
format_unsigned(v, size, unspecified) ==
    LET chars == DecimalOfUnsigned(v)
    IN IF Len(chars) <= size THEN chars
       ELSE IF unspecified = "untouched" THEN [i \in 1..size |-> NUL]
       ELSE SubSeq(chars, 1, size)

format_uint32(arg, unspecified) == format_unsigned(arg, uint32_digits, unspecified)
format_uint64(arg, unspecified) == format_unsigned(arg, uint64_digits, unspecified)

\* the digits after the point of rem / d, for a fraction with a finite decimal form
RECURSIVE DecimalPlaces(_, _)
DecimalPlaces(rem, d) ==
    IF rem = 0 THEN <<>>
    ELSE <<DigitChar((rem * 10) \div d)>> \o DecimalPlaces((rem * 10) % d, d)

\* std::to_chars(p, p + double_digits, arg): the shortest form that reads back
format_double(arg) ==
    IF arg[1] % arg[2] = 0 THEN DecimalOf(arg[1] \div arg[2])
    ELSE DecimalOf(arg[1] \div arg[2]) \o <<".">> \o DecimalPlaces(arg[1] % arg[2], arg[2])

\* format_arg(char const (&arg)[N])
format_literal(arg) == <<QUOTE>> \o arg \o <<QUOTE>>

\* format_args: the arguments joined by ',' and ended by '\n'
RECURSIVE format_args(_, _)
format_args(args, i) ==
    IF i = Len(args) THEN args[i] \o <<LF>>
    ELSE args[i] \o <<COMMA>> \o format_args(args, i + 1)

(***************************************************************************)
(* swollencandle.hpp: write and read of candles                            *)
(***************************************************************************)
CandleHeader ==
    <<<<"t", "i", "m", "e">>,
     <<"p", "e", "r", "i", "o", "d">>,
     <<"t", "r", "a", "d", "e", "s">>,
     <<"v", "o", "l", "u", "m", "e">>,
     <<"v", "w", "a", "p", "_", "p", "r", "i", "c", "e">>,
     <<"o", "p", "e", "n", "_", "p", "r", "i", "c", "e">>,
     <<"h", "i", "g", "h", "_", "p", "r", "i", "c", "e">>,
     <<"l", "o", "w", "_", "p", "r", "i", "c", "e">>,
     <<"c", "l", "o", "s", "e", "_", "p", "r", "i", "c", "e">>>>

CandleFields == <<"uint64", "uint32", "uint64", "double", "double",
                  "double", "double", "double", "double">>

format_candle(candle, unspecified) ==
    format_args(<<format_uint64(candle.time, unspecified),
                  format_uint32(candle.period, unspecified),
                  format_uint64(candle.count, unspecified),
                  format_double(candle.volume), format_double(candle.vwap_price),
                  format_double(candle.open_price), format_double(candle.high_price),
                  format_double(candle.low_price), format_double(candle.close_price)>>, 1)

RECURSIVE FormatCandles(_, _, _)
FormatCandles(cs, i, unspecified) ==
    IF i > Len(cs) THEN <<>>
    ELSE format_candle(cs[i], unspecified) \o FormatCandles(cs, i + 1, unspecified)

\* the bytes write(filename, candles, ec) hands to to_file
write_candles(cs, unspecified) ==
    format_args([i \in 1..Len(CandleHeader) |-> format_literal(CandleHeader[i])], 1)
        \o FormatCandles(cs, 1, unspecified)

\* the loop over the rows of a range: rows holds the values of the rows parsed so far
RECURSIVE ReadRows(_, _, _, _, _)

\* the body of the loop, r being what row.parse returned
ReadRow(txt, r, end, kinds, rows) ==
    IF ~r.ok THEN [ok |-> FALSE, rows |-> rows]
    ELSE ReadRows(txt, next_row(txt, r.cursor), end, kinds, Append(rows, r.values))

ReadRows(txt, cursor, end, kinds, rows) ==
    IF cursor = end THEN [ok |-> TRUE, rows |-> rows]
    ELSE ReadRow(txt, parse(txt, cursor, kinds), end, kinds, rows)

ReadRange(txt, range, kinds) == ReadRows(txt, range.begin, range.end, kinds, <<>>)

CandleOf(v) == Candle(v[1], v[2], v[3], v[4], v[5], v[6], v[7], v[8], v[9])

\* what read leaves in ret, ec and candles, r being the outcome of its loop
CandlesRead(r, e) ==
    [ret |-> r.ok,
     ec |-> IF r.ok THEN e ELSE "invalid_candle_fields",
     candles |-> [i \in 1..Len(r.rows) |-> CandleOf(r.rows[i])]]

\* read(filename, candles, ec) on the bytes of the file
read_candles(txt, e) ==
    CandlesRead(ReadRange(txt, second_to_last_rows(txt), CandleFields), e)

(***************************************************************************)
(* swollencandle.hpp: write and read of trades                             *)
(***************************************************************************)
TradeFields == <<"uint64", "double", "double">>

format_trade(trade) ==
    format_args(<<format_uint64(trade.time, "untouched"),
                  format_double(trade.price), format_double(trade.amount)>>, 1)

TradeOf(v) == [time |-> v[1], price |-> v[2], amount |-> v[3]]

\* what read leaves in ret, ec and trades, r being the outcome of its loop
TradesRead(r, e) ==
    [ret |-> r.ok,
     ec |-> IF r.ok THEN e ELSE "invalid_trade_fields",
     trades |-> [i \in 1..Len(r.rows) |-> TradeOf(r.rows[i])]]

\* read(filename, trades, ec) on the bytes of the file
read_trades(txt, e) ==
    TradesRead(ReadRange(txt, first_to_last_rows(txt), TradeFields), e)

\* the codec's variables while an aggregation runs
CodecIdle ==
    text = <<>> /\ fields = <<>> /\ parsed = <<>> /\ written = <<>> /\ candles = <<>>

(***************************************************************************)
(* Inputs of the trade aggregation                                         *)
(***************************************************************************)
\* times in three minute buckets, two of them in the first; three prices, two amounts
TradeTimes == {0, 59, 60, 125}
Fills == {<<1, 1>>, <<2, 2>>, <<1, 3>>, <<2, 3>>}
Trade == {[time |-> t, amount |-> f[1], price |-> f[2]] : t \in TradeTimes, f \in Fills}

\* what the caller's result vector may hold before a call
StaleCandle == Candle(7, 7, 7, 7, Whole(7), 7, 7, 7, 7)
ResultBefore == {<<>>, <<StaleCandle>>}

InitTrades ==
    /\ pc = "call"
    /\ up \in upscale_period
    /\ trades \in SeqsUpTo(Trade, MaxTrades)
    /\ result0 \in ResultBefore
    /\ result = result0
    /\ source = <<>> /\ x = <<>> /\ y = <<>> /\ z = <<>> /\ z0 = <<>>
    /\ ec = "ok"
    /\ ret = FALSE
    /\ CodecIdle

TradesToCandles ==
    /\ pc = "call"
    /\ result' = upscale_trades(trades, result, up)
    /\ ret' = TRUE
    /\ pc' = "done"
    /\ UNCHANGED <<up, trades, source, x, y, result0, z, z0, ec, text, fields, parsed, written, candles>>

NextTrades == TradesToCandles

(***************************************************************************)
(* Inputs of the candle upscaling                                          *)
(***************************************************************************)
\* count, volume and prices of a candle: three valid candles that differ in every field
Bodies ==
    {[count |-> 1, volume |-> 1, vwap |-> 1, open |-> 1, high |-> 2, low |-> 1, close |-> 2],
     [count |-> 2, volume |-> 3, vwap |-> 4, open |-> 4, high |-> 5, low |-> 3, close |-> 3],
     [count |-> 5, volume |-> 2, vwap |-> 2, open |-> 3, high |-> 3, low |-> 0, close |-> 1]}

PlainBody == [count |-> 1, volume |-> 1, vwap |-> 1, open |-> 1, high |-> 2, low |-> 1, close |-> 2]

SourceCandle(time, period, b) ==
    Candle(time, period, b.count, b.volume, Whole(b.vwap), b.open, b.high, b.low, b.close)

SourcePeriods == {0, 7, 20, 30, 60, 120}
SourceTimes == {0, 30, 60, 90, 120, 150}

\* back-to-back candles of one period, any bodies
SourcesByBody ==
    UNION {{[i \in 1..n |-> SourceCandle(start + (i - 1) * period, period, bs[i])] :
              bs \in [1..n -> Bodies]} :
           n \in 0..MaxSource, period \in {20, 30}, start \in {0, 60}}

\* candles of any periods, mixed or not
SourcesByPeriod ==
    UNION {{[i \in 1..n |-> SourceCandle((i - 1) * 60, ps[i], PlainBody)] :
              ps \in [1..n -> SourcePeriods]} :
           n \in 0..MaxSource}

\* half-minute candles strictly ascending by time, with gaps and any first time
SourcesByTime ==
    UNION {{[i \in 1..n |-> SourceCandle(ts[i], 30, PlainBody)] :
              ts \in {t \in [1..n -> SourceTimes] :
                        \A i \in 1..(n - 1) : t[i] < t[i + 1]}} :
           n \in 0..MaxSource}

InitUpscale ==
    /\ pc = "call"
    /\ up \in upscale_period
    /\ source \in SourcesByBody \cup SourcesByPeriod \cup SourcesByTime
    /\ result0 \in ResultBefore
    /\ result = result0
    /\ trades = <<>> /\ x = <<>> /\ y = <<>> /\ z = <<>> /\ z0 = <<>>
    /\ ec = "ok"
    /\ ret = FALSE
    /\ CodecIdle

UpscaleCandles ==
    /\ pc = "call"
    /\ \E o \in upscale_candles(source, result, up, ec) :
          /\ pc' = o.pc
          /\ ret' = o.ret
          /\ ec' = o.ec
          /\ result' = o.result
    /\ UNCHANGED <<up, trades, source, x, y, result0, z, z0, text, fields, parsed, written, candles>>

NextUpscale == UpscaleCandles

SpecUpscale == InitUpscale /\ [][NextUpscale]_vars

(***************************************************************************)
(* Inputs of the merge                                                     *)
(***************************************************************************)
\* minute candles at three times that differ, if at all, in close_price, and one
\* half-minute candle
MergeCandle ==
    {Candle(t, 60, 1, 1, Whole(1), 1, 2, 1, c) : t \in {0, 60, 120}, c \in {1, 2}}
        \cup {Candle(0, 30, 1, 1, Whole(1), 1, 2, 1, 1)}

InitMerge ==
    /\ pc = "call"
    /\ x \in SeqsUpTo(MergeCandle, MaxMerge)
    /\ y \in SeqsUpTo(MergeCandle, MaxMerge)
    /\ z0 \in ResultBefore
    /\ z = z0
    /\ up = "minute"
    /\ trades = <<>> /\ source = <<>> /\ result = <<>> /\ result0 = <<>>
    /\ ec = "ok"
    /\ ret = FALSE
    /\ CodecIdle

Merge ==
    /\ pc = "call"
    /\ LET o == merge(x, y, z, ec)
       IN /\ ret' = o.ret
          /\ ec' = o.ec
          /\ z' = o.z
    /\ pc' = "done"
    /\ UNCHANGED <<up, trades, source, x, y, result, result0, z0, text, fields, parsed, written, candles>>

NextMerge == Merge

SpecMerge == InitMerge /\ [][NextMerge]_vars

AggregationIdle ==
    /\ up = "minute"
    /\ trades = <<>> /\ source = <<>> /\ x = <<>> /\ y = <<>>
    /\ result = <<>> /\ result0 = <<>> /\ z = <<>> /\ z0 = <<>>

(***************************************************************************)
(* Writing candles and reading them back                                   *)
(***************************************************************************)
\* times of 1, 8, 18, 19 and 20 digits; the largest is the largest u64
StoredTimes == {Limbs(0), <<0, 1, 0>>, <<9999, 9999999, 9999999>>,
                <<10000, 0, 0>>, UInt64Max}
StoredPeriods == {Limbs(0), Limbs(60), UInt32Max}
StoredCounts == {Limbs(1), <<0, 12, 3456789>>}
StoredVolumes == {Whole(1), <<5, 2>>}

StoredCandle ==
    {Candle(t, p, c, v, Whole(3), Whole(2), Whole(4), Whole(0), Whole(10)) :
        t \in StoredTimes, p \in StoredPeriods, c \in StoredCounts, v \in StoredVolumes}

InitCodec ==
    /\ pc = "write"
    /\ written \in SeqsUpTo(StoredCandle, MaxRows) \ {<<>>}
    /\ text = <<>> /\ candles = <<>> /\ fields = CandleFields /\ parsed = <<>>
    /\ AggregationIdle
    /\ ec = "ok"
    /\ ret = FALSE

WriteCandles ==
    /\ pc = "write"
    /\ \E unspecified \in Unspecified : text' = write_candles(written, unspecified)
    /\ pc' = "read"
    /\ UNCHANGED <<up, trades, source, x, y, result, result0, z, z0, ec, ret,
                   fields, parsed, written, candles>>

ReadCandles ==
    /\ pc = "read"
    /\ \E o \in {read_candles(text, ec)} :
          /\ ret' = o.ret
          /\ ec' = o.ec
          /\ candles' = o.candles
    /\ pc' = "done"
    /\ UNCHANGED <<up, trades, source, x, y, result, result0, z, z0,
                   text, fields, parsed, written>>

NextCodec == WriteCandles \/ ReadCandles

SpecCodec == InitCodec /\ [][NextCodec]_vars

SpecTrades == InitTrades /\ [][NextTrades]_vars

(***************************************************************************)
(* Parsing one row                                                         *)
(***************************************************************************)
\* a digit, a letter, the point, and the characters the scanners look for
RowChars == {"1", "a", ".", " ", COMMA, QUOTE, LF}

\* the greatest integers of 32 and of 64 bits and the least that overflow them, read
\* as integers or as text
IntegerRows ==
    {<<"4", "2", "9", "4", "9", "6", "7", "2", "9", "5">>,
     <<"4", "2", "9", "4", "9", "6", "7", "2", "9", "6">>,
     <<"1", "8", "4", "4", "6", "7", "4", "4", "0", "7",
       "3", "7", "0", "9", "5", "5", "1", "6", "1", "5">>,
     <<"1", "8", "4", "4", "6", "7", "4", "4", "0", "7",
       "3", "7", "0", "9", "5", "5", "1", "6", "1", "6">>}

IntegerSchemas == {<<"uint64">>, <<"uint32">>, <<"string">>}

\* rows longer than MaxText: numeric prefixes, a quoted text with a doubled quote, a
\* field too many, an unterminated quote, white space around the fields
LongRows ==
    {<<"1", "2", "a", "b", "c">>,
     <<"3", " ", "4">>,
     <<"1", COMMA, QUOTE, "a", QUOTE, QUOTE, "b", QUOTE, COMMA, "2", ".", "5">>,
     <<"1", COMMA, "2", COMMA, "3", COMMA, "4">>,
     <<"1", COMMA, QUOTE, "u", "n", "t", "e", "r", "m", "i", "n", "a", "t", "e", "d">>,
     <<" ", "1", "2", " ", COMMA, " ", "2", ".", "5", "0", " ", CR, LF>>}

\* the declared fields of a row
Schemas ==
    IntegerSchemas \cup
        {<<"double">>, <<"uint64", "double">>, <<"uint64", "string", "double">>}

InitParse ==
    /\ pc = "parse"
    /\ \/ text \in SeqsUpTo(RowChars, MaxText) \cup LongRows /\ fields \in Schemas
       \/ text \in IntegerRows /\ fields \in IntegerSchemas
    /\ parsed = <<>> /\ written = <<>> /\ candles = <<>>
    /\ AggregationIdle
    /\ ec = "ok"
    /\ ret = FALSE

\* reader.begin()->parse(args...): the first row of the buffer against the schema
ParseRow ==
    /\ pc = "parse"
    /\ parsed' = parse(text, first_row(text), fields)
    /\ pc' = "done"
    /\ UNCHANGED <<up, trades, source, x, y, result, result0, z, z0, ec, ret,
                   text, fields, written, candles>>

NextParse == ParseRow

SpecParse == InitParse /\ [][NextParse]_vars

(***************************************************************************)
(* Reading files of candles and of trades                                  *)
(***************************************************************************)
RECURSIVE Concat(_)
Concat(lines) == IF lines = <<>> THEN <<>> ELSE Head(lines) \o Concat(Tail(lines))

HeaderLine == format_args([i \in 1..Len(CandleHeader) |-> format_literal(CandleHeader[i])], 1)

\* rows as write lays them out
FiledCandle ==
    {Candle(Limbs(t), Limbs(60), Limbs(1), Whole(1), Whole(3), Whole(2), Whole(4),
            Whole(0), Whole(10)) : t \in {0, 60}}
FiledTrade == {[time |-> Limbs(t), price |-> <<5, 2>>, amount |-> Whole(1)] : t \in {0, 61}}

\* rows that do not parse: a word, a row two fields short, a row with a letter in
\* place of its last field
BrokenLines ==
    {<<"x", LF>>,
     <<"1", COMMA, LF>>,
     <<"0", COMMA, "6", "0", COMMA, "1", COMMA, "1", COMMA, "1", COMMA, "1", COMMA, "1",
       COMMA, "1", COMMA, "x", LF>>,
     <<"0", COMMA, "1", COMMA, "x", LF>>}

CandleLines == {format_candle(c, "untouched") : c \in FiledCandle} \cup BrokenLines
TradeLines == {format_trade(t) : t \in FiledTrade} \cup BrokenLines

CandleFiles == {HeaderLine \o Concat(ls) : ls \in SeqsUpTo(CandleLines, MaxRows)}
TradeFiles == {Concat(ls) : ls \in SeqsUpTo(TradeLines, MaxRows)}

\* the caller's vectors are empty before the call
InitRead ==
    /\ \/ pc = "read" /\ text \in CandleFiles /\ fields = CandleFields
       \/ pc = "read_trades" /\ text \in TradeFiles /\ fields = TradeFields
    /\ parsed = <<>> /\ written = <<>> /\ candles = <<>>
    /\ AggregationIdle
    /\ ec = "ok"
    /\ ret = FALSE

ReadTrades ==
    /\ pc = "read_trades"
    /\ \E o \in {read_trades(text, ec)} :
          /\ ret' = o.ret
          /\ ec' = o.ec
          /\ trades' = o.trades
    /\ pc' = "done"
    /\ UNCHANGED <<up, source, x, y, result, result0, z, z0,
                   text, fields, parsed, written, candles>>

NextRead == ReadCandles \/ ReadTrades

SpecRead == InitRead /\ [][NextRead]_vars

(***************************************************************************)
(* Parsing the name of a period                                            *)
(***************************************************************************)
PeriodChars == {"d", "a", "y", "D", " "}

\* the five names; names in other case, shortened, lengthened, with characters around
\* them, and with a letter changed; the two texts of the test that yield nothing
PeriodNames ==
    {<<"m", "i", "n", "u", "t", "e">>, <<"h", "o", "u", "r">>, <<"d", "a", "y">>,
     <<"m", "o", "n", "t", "h">>, <<"y", "e", "a", "r">>,
     <<"M", "i", "n", "u", "t", "e">>, <<"H", "O", "U", "R">>, <<"Y", "e", "a", "r">>,
     <<"m", "o", "n", "t", "H">>,
     <<"m", "i", "n">>, <<"h">>, <<"h", "r">>, <<"m", "o", "n">>, <<"y", "r">>,
     <<"m", "i", "n", "u", "t", "e", "s">>, <<"h", "o", "u", "r", "s">>,
     <<"y", "e", "a", "r", "s">>, <<"m", "o", "n", "t", "h", "s">>,
     <<" ", "h", "o", "u", "r">>, <<"h", "o", "u", "r", " ">>, <<"y", "e", "a", "r", LF>>,
     <<" ", "m", "o", "n", "t", "h">>, <<"m", "i", "n", "u", "t", "e", " ">>,
     <<"h", "o", "u", "s">>, <<"y", "e", "a", "h">>, <<"m", "o", "u", "t", "h">>,
     <<"m", "i", "n", "u", "t", "a">>, <<"h", "e", "a", "r">>, <<"y", "o", "u", "r">>,
     <<>>, <<"u", "n", "k", "n", "o", "w", "n">>}

InitPeriod ==
    /\ pc = "parse_period"
    /\ text \in SeqsUpTo(PeriodChars, MaxText) \cup PeriodNames
    /\ fields = <<>> /\ parsed = <<>> /\ written = <<>> /\ candles = <<>>
    /\ AggregationIdle
    /\ ec = "ok"
    /\ ret = FALSE

ParseUpscalePeriod ==
    /\ pc = "parse_period"
    /\ parsed' = parse_upscale_period(text)
    /\ pc' = "done"
    /\ UNCHANGED <<up, trades, source, x, y, result, result0, z, z0, ec, ret,
                   text, fields, written, candles>>

NextPeriod == ParseUpscalePeriod

SpecPeriod == InitPeriod /\ [][NextPeriod]_vars

(***************************************************************************)
(* C1: the trade fold                                                      *)
(***************************************************************************)
Ascending(ts) == \A i \in 1..(Len(ts) - 1) : ts[i].time <= ts[i + 1].time

Front(s) == SubSeq(s, 1, Len(s) - 1)

RECURSIVE SumCounts(_)
SumCounts(cs) == IF cs = <<>> THEN 0 ELSE cs[Len(cs)].count + SumCounts(Front(cs))

StrictlyAscendingTimes(cs) == \A i \in 1..(Len(cs) - 1) : cs[i].time < cs[i + 1].time

\* the reference fold of the claim: a list of open candles, the last one current,
\* each a record of the candle's fields and its turnover
RefOpen(t, p) ==
    [time |-> (t.time \div p) * p, period |-> p, count |-> 1, volume |-> t.amount,
     turnover |-> t.price * t.amount, open |-> t.price, high |-> t.price,
     low |-> t.price, close |-> t.price]

RefExtend(c, t) ==
    [c EXCEPT !.count = @ + 1, !.volume = @ + t.amount,
              !.turnover = @ + t.price * t.amount,
              !.close = t.price,
              !.high = Max2(@, t.price), !.low = Min2(@, t.price)]

RECURSIVE RefFold(_, _)
RefFold(ts, p) ==
    IF Len(ts) = 1 THEN <<RefOpen(ts[1], p)>>
    ELSE LET prev == RefFold(Front(ts), p)
             cur  == prev[Len(prev)]
             t    == ts[Len(ts)]
         IN IF t.time < cur.time + p
            THEN [prev EXCEPT ![Len(prev)] = RefExtend(cur, t)]
            ELSE Append(prev, RefOpen(t, p))

RefCandles(ts, p) ==
    LET f == RefFold(ts, p)
    IN [i \in 1..Len(f) |->
          Candle(f[i].time, f[i].period, f[i].count, f[i].volume,
                 Ratio(f[i].turnover, f[i].volume), f[i].open, f[i].high,
                 f[i].low, f[i].close)]

\* C1: for a non-empty ascending trade sequence and an empty result, trades_to_candles
\* returns the reference fold (first trade opens, a trade before the boundary extends,
\* a trade at or past it closes and opens, the last candle is flushed); the counts of
\* the output sum to the number of trades and the output times are strictly ascending.
C1_FoldIsReference ==
    (pc = "done" /\ trades # <<>> /\ Ascending(trades) /\ result0 = <<>>)
        => /\ ret = TRUE
           /\ result = RefCandles(trades, seconds_in(up))
           /\ SumCounts(result) = Len(trades)
           /\ StrictlyAscendingTimes(result)

\* three ascending trades, the first two in one minute bucket, the third at the boundary
C1_Witness ==
    /\ pc = "done" /\ result0 = <<>> /\ up = "minute"
    /\ Len(trades) = 3 /\ Ascending(trades)
    /\ trades[2].time = 59 /\ trades[3].time = 60
    /\ Len(result) = 2 /\ result[1].count = 2 /\ result[2].time = 60

(***************************************************************************)
(* C2: upscaling by a proper multiple                                      *)
(***************************************************************************)
RECURSIVE SumRange(_, _, _)
SumRange(s, lo, hi) == IF lo > hi THEN 0 ELSE s[hi] + SumRange(s, lo, hi - 1)

RECURSIVE SumFractions(_, _, _)
SumFractions(s, lo, hi) ==
    IF lo > hi THEN Whole(0) ELSE Plus(SumFractions(s, lo, hi - 1), s[hi])

Greatest(S) == CHOOSE m \in S : \A v \in S : v <= m
Least(S) == CHOOSE m \in S : \A v \in S : m <= v

ConstantPeriod(cs) == \A i, j \in 1..Len(cs) : cs[i].period = cs[j].period

\* what the claim says output candle i is, for runs of k source candles
RunAggregate(src, i, k, target_seconds) ==
    LET lo == (i - 1) * k + 1
        hi == i * k
        weighted == [j \in 1..Len(src) |-> Times(src[j].vwap_price, src[j].volume)]
        volume == SumRange([j \in 1..Len(src) |-> src[j].volume], lo, hi)
    IN Candle((src[lo].time \div target_seconds) * target_seconds,
              target_seconds,
              SumRange([j \in 1..Len(src) |-> src[j].count], lo, hi),
              volume,
              Over(SumFractions(weighted, lo, hi), volume),
              src[lo].open_price,
              Greatest({src[j].high_price : j \in lo..hi}),
              Least({src[j].low_price : j \in lo..hi}),
              src[hi].close_price)

ProperMultiple(target_seconds, period) ==
    period > 0 /\ target_seconds % period = 0 /\ target_seconds # period

\* C2: a constant-period source of n candles upscaled to a proper multiple
\* k = target_seconds / source_period of its period gives floor(n / k) candles (a tail
\* of fewer than k candles is dropped without error), and output candle i aggregates
\* source[i*k .. i*k+k-1]: counts and volumes summed, vwap volume-weighted, high the max,
\* low the min, open of the first, close of the last, time floored to the target period.
C2_UpscaleRuns ==
    (/\ pc # "call" /\ source # <<>> /\ ConstantPeriod(source)
     /\ ProperMultiple(seconds_in(up), source[1].period))
        => LET k == seconds_in(up) \div source[1].period
           IN /\ pc = "done" /\ ret = TRUE /\ ec = "ok"
              /\ Len(result) = Len(source) \div k
              /\ \A i \in 1..Len(result) :
                    result[i] = RunAggregate(source, i, k, seconds_in(up))

\* three half-minute candles to a minute: one candle of the first two, the third dropped
C2_Witness ==
    /\ pc = "done" /\ up = "minute" /\ Len(source) = 3
    /\ ConstantPeriod(source) /\ source[1].period = 30
    /\ source[1].close_price # source[2].close_price
    /\ Len(result) = 1
    /\ result[1].count = source[1].count + source[2].count
    /\ result[1].close_price = source[2].close_price

(***************************************************************************)
(* C7, C8: the outcome of upscale_candles                                  *)
(***************************************************************************)
Fails(e) == pc = "done" /\ ret = FALSE /\ ec = e
Succeeds == pc = "done" /\ ret = TRUE /\ ec = "ok"

\* C7: on a non-empty source the outcome is decided in this order: non_constant_period
\* if some period differs from the first; otherwise invalid_upscale_period if and only
\* if seconds_in(target) % source_period != 0; otherwise success, and a copy of the
\* source when the target equals the source period.  (For a source period of 0 the
\* remainder has no value: the claim still has the call end in one of the two.)
C7_ErrorOrder ==
    (pc # "call" /\ source # <<>>)
        => IF ~ConstantPeriod(source) THEN Fails("non_constant_period")
           ELSE IF source[1].period = 0
                THEN Fails("invalid_upscale_period") \/ Succeeds
           ELSE IF seconds_in(up) % source[1].period # 0
                THEN Fails("invalid_upscale_period")
           ELSE /\ Succeeds
                /\ seconds_in(up) = source[1].period => result = source

\* the same order for the sources whose first period is not 0
ErrorOrderForNonZeroPeriod ==
    (pc # "call" /\ source # <<>> /\ source[1].period # 0) => C7_ErrorOrder

\* C8: upscale_candles never aborts: for every candle sequence, a period of 0
\* included, the call ends in success or in one of its typed errors.
C8_NeverAborts ==
    pc # "call"
        => /\ pc = "done"
           /\ ret = TRUE \/ ec \in {"non_constant_period", "invalid_upscale_period"}

(***************************************************************************)
(* C3 .. C6: merge                                                         *)
(***************************************************************************)
Elements(s) == {s[i] : i \in 1..Len(s)}
TimesOf(s) == {s[i].time : i \in 1..Len(s)}
RepeatsTime(s) == \E i, j \in 1..Len(s) : i # j /\ s[i].time = s[j].time

\* C3: whenever merge_candles(x, y) succeeds, the result holds exactly one candle for
\* every distinct time of x or y, equal field for field to the input candle with that
\* time, strictly ascending by time, and nothing else, whatever the result held before.
C3_MergeIsUnion ==
    (pc = "done" /\ ret = TRUE)
        => /\ StrictlyAscendingTimes(z)
           /\ TimesOf(z) = TimesOf(x) \cup TimesOf(y)
           /\ \A i \in 1..Len(z) :
                 \A c \in Elements(x) \cup Elements(y) : c.time = z[i].time => z[i] = c

\* unsorted inputs that share one identical candle, merged over a stale result
C3_Witness ==
    /\ pc = "done" /\ ret = TRUE /\ z0 # <<>>
    /\ Len(x) = 2 /\ Len(y) = 2 /\ x[1].time > x[2].time
    /\ x[1] = y[2] /\ Len(z) = 3
EqualPeriods == \A c, d \in Elements(x) \cup Elements(y) : c.period = d.period

\* a time of both x and y whose two candles differ in some field
ConflictingOverlap == \E c \in Elements(x), d \in Elements(y) : c.time = d.time /\ c # d

\* every candle whose time is in both x and y is in the result exactly once
OverlapKeptOnce ==
    \A c \in Elements(x) :
        c.time \in TimesOf(y) => Cardinality({i \in 1..Len(z) : z[i] = c}) = 1

ConflictDecidesMerge ==
    /\ Fails("mismatched_candles") <=> ConflictingOverlap
    /\ ~ConflictingOverlap => (ret = TRUE /\ OverlapKeptOnce)

DiffersWithinY == \E i, j \in 1..Len(y) : y[i].time = y[j].time /\ y[i] # y[j]

C5_RepeatedTimeIsDuplicated ==
    (/\ pc = "done" /\ EqualPeriods
     /\ \/ RepeatsTime(x)
        \/ /\ TimesOf(x) \cap TimesOf(y) = {}
           /\ RepeatsTime(y))
        => Fails("duplicated_candle")

\* the same for x alone, which the loop over x does refuse
RepeatedTimeInXIsDuplicated ==
    (pc = "done" /\ EqualPeriods /\ RepeatsTime(x)) => Fails("duplicated_candle")

\* C6: merge_candles is commutative: merge(x, y) and merge(y, x) either both fail or
\* both succeed with equal results.
C6_MergeCommutes ==
    pc = "done"
        => LET swapped == merge(y, x, z0, "ok")
           IN /\ ret = swapped.ret
              /\ ret = TRUE => z = swapped.z

\* commutative when neither input repeats a time
CommutesWithoutRepeats ==
    (pc = "done" /\ ~RepeatsTime(x) /\ ~RepeatsTime(y)) => C6_MergeCommutes

(***************************************************************************)
(* C9: the round trip of candles                                           *)
(***************************************************************************)
\* C9: for any non-empty candle sequence (any u64 time and count, any u32 period),
\* reading back the bytes that write_candles produced succeeds and yields the sequence
\* field for field, the header row being skipped.
C9_RoundTrip ==
    pc = "done" => (ret = TRUE /\ candles = written)

\* the round trip of the sequences whose times and counts have at most 18 digits
RoundTripUpTo18Digits ==
    (pc = "done" /\ \A i \in 1..Len(written) :
                       ~Exceeds(written[i].time, <<9999, 9999999, 9999999>>)
                       /\ ~Exceeds(written[i].count, <<9999, 9999999, 9999999>>))
        => (ret = TRUE /\ candles = written)

(***************************************************************************)
(* C10: numeric fields                                                     *)
(***************************************************************************)
Numeric(kind) == kind \in {"uint32", "uint64", "double"}

MaxOf(kind) == IF kind = "uint32" THEN UInt32Max ELSE UInt64Max

AllDigits(txt, b, e) == \A i \in b..(e - 1) : IsDigit(At(txt, i))

\* the number that the digits of [b, e) spell, the leading limb unbounded
RECURSIVE Spelled(_, _, _, _)
Spelled(txt, b, e, v) ==
    IF b >= e THEN v ELSE Spelled(txt, b + 1, e, PushDigit(v, DigitValue(At(txt, b))))

\* [b, e) is in its entirety an unsigned decimal number no greater than max
WholeUnsigned(txt, b, e, max) ==
    /\ b < e
    /\ AllDigits(txt, b, e)
    /\ ~Exceeds(Spelled(txt, b, e, Limbs(0)), max)

\* [b, e) is in its entirety a decimal number: digits, or digits and one point among
\* them, at least one digit
WholeDecimal(txt, b, e) ==
    \/ b < e /\ AllDigits(txt, b, e)
    \/ \E p \in b..(e - 1) :
          /\ At(txt, p) = "."
          /\ AllDigits(txt, b, p)
          /\ AllDigits(txt, p + 1, e)
          /\ e - b > 1

WholeNumber(txt, span, kind) ==
    IF kind = "double" THEN WholeDecimal(txt, span[1], span[2])
    ELSE WholeUnsigned(txt, span[1], span[2], MaxOf(kind))

\* C10: parsing a row fails whenever the span of a numeric field is empty, overflows
\* the type of the field, or is not in its entirety a valid number: of a row that
\* parsed, the span of every numeric field is a whole number of the field's type.
C10_NumericSpansAreWhole ==
    (pc = "done" /\ parsed.ok) =>
        \A i \in 1..Len(fields) :
            Numeric(fields[i]) => WholeNumber(text, parsed.spans[i], fields[i])

\* the first character that is no digit, or e
RECURSIVE DigitsEnd(_, _, _)
DigitsEnd(txt, b, e) ==
    IF b >= e \/ ~IsDigit(At(txt, b)) THEN b ELSE DigitsEnd(txt, b + 1, e)

\* what does hold of a row that parsed: the span of an integer field starts with a
\* digit and its leading digits spell a number that fits, and the span of a double
\* field starts with a digit or with a point and a digit
NumericSpansStartWithNumber ==
    (pc = "done" /\ parsed.ok) =>
        \A i \in 1..Len(fields) :
            LET b == parsed.spans[i][1]
                e == parsed.spans[i][2]
            IN /\ fields[i] \in {"uint32", "uint64"} =>
                      WholeUnsigned(text, b, DigitsEnd(text, b, e), MaxOf(fields[i]))
               /\ fields[i] = "double" =>
                      /\ b < e
                      /\ \/ IsDigit(At(text, b))
                         \/ At(text, b) = "." /\ b + 1 < e /\ IsDigit(At(text, b + 1))

\* a row that parsed although a numeric span only starts with a number
NumericPrefixAccepted ==
    /\ pc = "done"
    /\ parsed.ok
    /\ \E i \in 1..Len(fields) :
          Numeric(fields[i]) /\ ~WholeNumber(text, parsed.spans[i], fields[i])

(***************************************************************************)
(* C11: the fields of a row                                                *)
(***************************************************************************)
WhiteSpace == {" ", TAB, CR}

\* the field whose span is parsed.spans[i] stood between quotes
InQuotes(i) == At(text, parsed.spans[i][1] - 1) = QUOTE

\* the characters of field i, its quotes included, are those of [FieldBegin, FieldEnd)
FieldBegin(i) == IF InQuotes(i) THEN parsed.spans[i][1] - 1 ELSE parsed.spans[i][1]
FieldEnd(i) == IF InQuotes(i) THEN parsed.spans[i][2] + 1 ELSE parsed.spans[i][2]

\* [b, e) holds white space and exactly one comma
SingleComma(b, e) ==
    /\ \A p \in b..(e - 1) : At(text, p) \in WhiteSpace \cup {COMMA}
    /\ Cardinality({p \in b..(e - 1) : At(text, p) = COMMA}) = 1

\* from b on, white space and then a newline or the end of the buffer
RowEndsAfter(b) ==
    \E q \in b..(Len(text) + 1) :
        /\ \A p \in b..(q - 1) : At(text, p) \in WhiteSpace
        /\ At(text, q) \in {LF, NUL}

\* the commas of the first line of the text
CommasOfFirstLine ==
    {p \in 1..Len(text) : text[p] = COMMA /\ \A q \in 1..p : text[q] # LF}

\* C11: a row parses against N declared fields only if it holds exactly N fields,
\* one comma between neighbours (white space around it allowed), the first field at
\* the start of the row and after the last field only white space up to a newline or
\* the end of the buffer; a field outside quotes holds no comma, and a row without
\* quotes holds exactly N - 1 commas.
C11_ExactlyDeclaredFields ==
    (pc = "done" /\ parsed.ok) =>
        /\ Len(parsed.spans) = Len(fields)
        /\ Len(parsed.values) = Len(fields)
        /\ \A p \in 1..(FieldBegin(1) - 1) : text[p] \in WhiteSpace
        /\ \A i \in 1..Len(fields) :
              /\ FieldBegin(i) < FieldEnd(i)
              /\ ~InQuotes(i) =>
                    \A p \in parsed.spans[i][1]..(parsed.spans[i][2] - 1) :
                        text[p] \notin {COMMA, TAB, CR, LF}
        /\ \A i \in 1..(Len(fields) - 1) : SingleComma(FieldEnd(i), FieldBegin(i + 1))
        /\ RowEndsAfter(FieldEnd(Len(fields)))
        /\ (\A p \in 1..Len(text) : text[p] # QUOTE) =>
              Cardinality(CommasOfFirstLine) = Len(fields) - 1

\* a row of three fields, one of them in quotes, parsed
C11_Witness ==
    /\ pc = "done"
    /\ parsed.ok
    /\ Len(fields) = 3
    /\ \E i \in 1..3 : InQuotes(i)

\* a row of two fields with white space on both sides of its comma parsed
TwoFieldsAroundSpacedComma ==
    /\ pc = "done"
    /\ parsed.ok
    /\ Len(fields) = 2
    /\ \E p \in 2..(Len(text) - 1) :
          text[p] = COMMA /\ text[p - 1] = " " /\ text[p + 1] = " "

\* the rows the specification names as malformed do not parse
FieldTooMany == <<"1", COMMA, "2", COMMA, "3", COMMA, "4">>

MalformedRowsRejected ==
    (pc = "done" /\ (text = FieldTooMany \/ (Len(text) > 2 /\ SubSeq(text, 1, 3) = <<"1", COMMA, QUOTE>>
                                             /\ \A p \in 4..Len(text) : text[p] # QUOTE)))
        => ~parsed.ok

(***************************************************************************)
(* C12: quoted text                                                        *)
(***************************************************************************)
\* the text of a quoted field read in one pass from the character after its opening
\* quote: a doubled quote stands for one quote, the first quote that is not doubled
\* closes the field, a newline or the end of the buffer leaves it open
RECURSIVE QuotedText(_, _)
QuotedText(p, chars) ==
    CASE At(text, p) \in {LF, NUL} -> [closed |-> FALSE, at |-> p, chars |-> chars]
      [] At(text, p) = QUOTE /\ At(text, p + 1) = QUOTE ->
            QuotedText(p + 2, Append(chars, QUOTE))
      [] At(text, p) = QUOTE -> [closed |-> TRUE, at |-> p, chars |-> chars]
      [] OTHER -> QuotedText(p + 1, Append(chars, At(text, p)))

\* where the row starts: the first character that is no white space
RECURSIVE RowStart(_)
RowStart(p) == IF At(text, p) \in WhiteSpace THEN RowStart(p + 1) ELSE p

\* C12: a quoted text field parses to the characters between its opening and its
\* closing quote with every doubled quote replaced by one quote, the closing quote
\* being the first quote that is not doubled; a row whose first field is quoted and
\* reaches a newline or the end of the buffer before its closing quote does not parse.
C12_QuotedText ==
    pc = "done" =>
        /\ parsed.ok =>
              \A i \in 1..Len(fields) :
                  (fields[i] = "string" /\ InQuotes(i)) =>
                      /\ QuotedText(parsed.spans[i][1], <<>>).closed
                      /\ QuotedText(parsed.spans[i][1], <<>>).at = parsed.spans[i][2]
                      /\ QuotedText(parsed.spans[i][1], <<>>).chars = parsed.values[i]
        /\ (At(text, RowStart(1)) = QUOTE /\ ~QuotedText(RowStart(1) + 1, <<>>).closed)
              => ~parsed.ok

\* a quoted text holding a doubled quote parsed, to a text that holds a quote
C12_Witness ==
    /\ pc = "done"
    /\ parsed.ok
    /\ \E i \in 1..Len(fields) :
          /\ fields[i] = "string"
          /\ InQuotes(i)
          /\ \E p \in 1..Len(parsed.values[i]) : parsed.values[i][p] = QUOTE

\* the example of the specification: field 2 of the row 1,"a""b",2.5 is a"b
QuotedExample == <<"1", COMMA, QUOTE, "a", QUOTE, QUOTE, "b", QUOTE, COMMA, "2", ".", "5">>

QuotedExampleParses ==
    (pc = "done" /\ text = QuotedExample /\ fields = <<"uint64", "string", "double">>)
        => (parsed.ok /\ parsed.values = <<Limbs(1), <<"a", QUOTE, "b">>, <<5, 2>>>>)

\* a row fails on a quoted first field that is left open
OpenQuoteRejected ==
    /\ pc = "done"
    /\ ~parsed.ok
    /\ At(text, RowStart(1)) = QUOTE
    /\ ~QuotedText(RowStart(1) + 1, <<>>).closed
    /\ Len(text) > 2

(***************************************************************************)
(* C13: a read that fails                                                  *)
(***************************************************************************)
ReadFailed == pc = "done" /\ ~ret

\* C13: when a row fails to parse, the read fails with invalid_candle_fields or
\* invalid_trade_fields and the caller's sequence, empty before the call, holds none
\* of the rows that parsed before the failing row.
C13_NoPartialRead ==
    ReadFailed =>
        /\ ec = (IF fields = CandleFields THEN "invalid_candle_fields"
                 ELSE "invalid_trade_fields")
        /\ candles = <<>>
        /\ trades = <<>>

\* what does hold: the error names the kind of the file, and a read succeeds exactly
\* when every line of the file is a row as write lays it out
ReadFailsWithFieldsError ==
    pc = "done" =>
        /\ ~ret => ec = (IF fields = CandleFields THEN "invalid_candle_fields"
                         ELSE "invalid_trade_fields")
        /\ ret => ec = "ok"
        /\ ret <=> (\A l \in BrokenLines : \A p \in 1..(Len(text) - Len(l) + 1) :
                        (p > 1 /\ text[p - 1] # LF) \/ SubSeq(text, p, p + Len(l) - 1) # l)

\* a read of candles failed and left the candles of the rows before the failing row
PartialCandlesLeft == ReadFailed /\ fields = CandleFields /\ candles # <<>>

\* a read of trades failed and left the trades of the rows before the failing row
PartialTradesLeft == ReadFailed /\ fields = TradeFields /\ trades # <<>>

(***************************************************************************)
(* C14: the result of a call and what the result held before               *)
(***************************************************************************)
\* C14: after a successful trades_to_candles the caller's result holds exactly the
\* candles computed from the trades, whatever it held before the call; for no
\* trades it is empty.
C14_FreshResult ==
    (pc = "done" /\ ret) => result = upscale_trades(trades, <<>>, up)

\* what does hold: the candles of the call follow what the result held before
TradesResultAppended ==
    (pc = "done" /\ ret) => result = result0 \o upscale_trades(trades, <<>>, up)

\* the same statement for upscale_candles, on SpecUpscale: it fails for no source
UpscaleResultIsFresh ==
    (pc = "done" /\ ret) =>
        \E o \in upscale_candles(source, <<>>, up, "ok") : o.ret /\ result = o.result

\* upscale_candles of a source that is not empty replaces the result
UpscaleOfSourceIsFresh ==
    (pc = "done" /\ ret /\ source # <<>>) =>
        \E o \in upscale_candles(source, <<>>, up, "ok") : o.ret /\ result = o.result

\* upscale_candles of no source leaves the result as it was
UpscaleOfNothingKeepsResult ==
    (pc = "done" /\ source = <<>>) => (ret /\ result = result0)

\* merge_candles replaces the result, on SpecMerge
MergeResultIsFresh ==
    (pc = "done" /\ ret) => z = merge(x, y, <<>>, "ok").z

\* a call with no trades returned and the result holds a candle
StaleResultKept ==
    pc = "done" /\ ret /\ trades = <<>> /\ result # <<>>

(***************************************************************************)
(* C15: the names of the periods                                           *)
(***************************************************************************)
NameOf(u) ==
    CASE u = "minute" -> <<"m", "i", "n", "u", "t", "e">>
      [] u = "hour"   -> <<"h", "o", "u", "r">>
      [] u = "day"    -> <<"d", "a", "y">>
      [] u = "month"  -> <<"m", "o", "n", "t", "h">>
      [] u = "year"   -> <<"y", "e", "a", "r">>

\* C15: parse_upscale_period yields a period if and only if the text is exactly one
\* of minute, hour, day, month, year, and then the period of that name; every other
\* text, the empty text and `unknown` among them, yields no value.
C15_ExactPeriodNames ==
    pc = "done" =>
        /\ \A u \in upscale_period : parsed = <<u>> <=> text = NameOf(u)
        /\ parsed = nullopt <=> (\A u \in upscale_period : text # NameOf(u))
        /\ text \in {<<>>, <<"u", "n", "k", "n", "o", "w", "n">>} => parsed = nullopt

\* the name hour was parsed to the period hour
C15_Witness ==
    pc = "done" /\ text = NameOf("hour") /\ parsed = <<"hour">>

\* a name in another case yielded no value
OtherCaseYieldsNothing ==
    pc = "done" /\ text = <<"D", "a", "y">> /\ parsed = nullopt

(***************************************************************************)
(* C16: the candles of a trade fold                                        *)
(***************************************************************************)
\* the candles the call added to the result
Emitted == SubSeq(result, Len(result0) + 1, Len(result))

\* the trades folded into the k-th emitted candle, by the counts of the candles
FirstTradeOf(k) == SumCounts(SubSeq(Emitted, 1, k - 1)) + 1
LastTradeOf(k) == SumCounts(SubSeq(Emitted, 1, k))
PricesOf(k) == {trades[i].price : i \in FirstTradeOf(k)..LastTradeOf(k)}

\* C16: every candle emitted by trades_to_candles, for any trade sequence, has a time
\* that is a multiple of its period, count >= 1 and low_price <= open_price,
\* close_price <= high_price; high_price is the greatest and low_price the least of
\* the prices of the trades folded into the candle.
C16_CandleInvariants ==
    pc = "done" =>
        /\ SumCounts(Emitted) = Len(trades)
        /\ \A k \in 1..Len(Emitted) :
              /\ Emitted[k].period = seconds_in(up)
              /\ Emitted[k].time % Emitted[k].period = 0
              /\ Emitted[k].count >= 1
              /\ Emitted[k].low_price <= Emitted[k].open_price
              /\ Emitted[k].open_price <= Emitted[k].high_price
              /\ Emitted[k].low_price <= Emitted[k].close_price
              /\ Emitted[k].close_price <= Emitted[k].high_price
              /\ Emitted[k].high_price = Greatest(PricesOf(k))
              /\ Emitted[k].low_price = Least(PricesOf(k))
              /\ Emitted[k].open_price = trades[FirstTradeOf(k)].price
              /\ Emitted[k].close_price = trades[LastTradeOf(k)].price

\* a candle of three trades whose second trade raised the high and whose third trade
\* lowered the low
C16_Witness ==
    /\ pc = "done"
    /\ Len(trades) = 3
    /\ Len(Emitted) = 1
    /\ trades[1].price < trades[2].price
    /\ trades[3].price < trades[1].price
    /\ Emitted[1].high_price = trades[2].price
    /\ Emitted[1].low_price = trades[3].price

\* trades that are not ascending by time were folded
UnorderedTradesFolded ==
    pc = "done" /\ ~Ascending(trades) /\ Len(Emitted) > 1

(***************************************************************************)
(* C17: the buckets of an upscaling                                        *)
(***************************************************************************)
\* the source the claim is about: one period, not 0, that divides the target; times
\* that are multiples of the period and ascend strictly
BucketedSource ==
    /\ source # <<>>
    /\ ConstantPeriod(source)
    /\ source[1].period # 0
    /\ seconds_in(up) % source[1].period = 0
    /\ StrictlyAscendingTimes(source)
    /\ \A j \in 1..Len(source) : source[j].time % source[j].period = 0

\* the source candles folded into result[i]
FoldedInto(i) ==
    LET k == seconds_in(up) \div source[1].period
    IN ((i - 1) * k + 1)..(i * k)

InBucket(time, out) == out.time <= time /\ time < out.time + seconds_in(up)

NoBucketMixed ==
    \A i \in 1..Len(result) : \A j \in FoldedInto(i) : InBucket(source[j].time, result[i])

\* C17: for every constant-period source that ascends strictly by time with times
\* that are multiples of its period, gaps and a first candle off the target boundary
\* allowed, every source candle folded into an output candle has its time inside the
\* bucket [out.time, out.time + target_seconds) of that output candle.
C17_NoBucketMixing ==
    (pc = "done" /\ ret /\ BucketedSource) => NoBucketMixed

\* what does hold: no bucket is mixed when the source has no gaps and its first candle
\* is on a boundary of the target period
GaplessAligned ==
    /\ source[1].time % seconds_in(up) = 0
    /\ \A j \in 1..(Len(source) - 1) :
          source[j + 1].time = source[j].time + source[j].period

NoBucketMixedWhenGaplessAligned ==
    (pc = "done" /\ ret /\ BucketedSource /\ GaplessAligned) => NoBucketMixed

\* two half-minute candles of two minute buckets were folded into one candle
BucketsMixed ==
    /\ pc = "done" /\ ret /\ BucketedSource
    /\ up = "minute"
    /\ Len(source) = 2 /\ source[1].time = 30 /\ source[2].time = 60
    /\ Len(result) = 1 /\ result[1].time = 0

\* four half-minute candles without gaps from time 0 gave two minute candles
GaplessAlignedUpscaled ==
    /\ pc = "done" /\ ret /\ BucketedSource /\ GaplessAligned
    /\ up = "minute" /\ Len(source) = 4 /\ Len(result) = 2

====
